---- MODULE Spec2Model ----
(***************************************************************************)
(* Device session (REPL / file system navigator), flashing workflow and    *)
(* board discovery of mu/logic.py, as a state machine.                     *)
(*                                                                         *)
(* Every operation of the Editor is one atomic action.  An operation is    *)
(* first written as an operator from the editor's state and the answers    *)
(* of its collaborators (port enumeration, serial probe, view, file        *)
(* system) to an "effect": the new state plus everything the operation     *)
(* did that a caller can observe (collaborator calls in order, messages    *)
(* shown, the exception that escaped).  The action then stores the effect  *)
(* in the state and in the record `last`.                                  *)
(***************************************************************************)
EXTENDS Integers, Sequences, FiniteSets, TLC

VARIABLES
    os_name,                     \* os.name of the host, fixed for a run
    repl,                        \* Editor.repl: None or the REPL's port
    fs,                          \* Editor.fs: None or "True"
    user_defined_microbit_path,  \* Editor.user_defined_microbit_path
    view_repl,                   \* the view currently shows a REPL pane
    view_fs,                     \* the view currently shows the file system
    annotations,                 \* the annotations the view holds, by line
    kept,                        \* history: path the user supplied, flashed
                                 \* to, and that existed at every flash since
    last,                        \* history: the last operation and its effect
    pc                           \* where two callers running add_fs and add_repl
                                 \* statement by statement stand

vars == <<os_name, repl, fs, user_defined_microbit_path, view_repl, view_fs,
          annotations, kept, last, pc>>

\* Python's None, for values that are otherwise strings.
None == "None"

\* Longest enumerated port list.
MaxPorts == 2

-----------------------------------------------------------------------------
(* Board discovery *)

\* 0x0D28 = 3368, 0x0204 = 516, 0x239A = 9114, 0x800B = 32779, 0x8016 = 32790,
\* 0x8014 = 32788, 0x8019 = 32793, 0x801B = 32795.
BOARD_IDS ==
    { <<3368, 516>>, <<9114, 32779>>, <<9114, 32790>>,
      <<9114, 32788>>, <<9114, 32793>>, <<9114, 32795>> }

\* Ports the enumeration may return: both vendors and two product ids of the
\* known boards in every combination, so that two of the four pairs are known
\* and two mix the vendor of one known pair with the product of another.
VendorIds == {3368, 9114}
ProductIds == {516, 32779}
PortNames == {"ttyACM0", "ttyACM1"}
Ports == [vid : VendorIds, pid : ProductIds, name : PortNames]
PortLists == UNION { [1..n -> Ports] : n \in 0..MaxPorts }

\* As scan_ports, but matching the vendor id and the product id separately.
RECURSIVE scan_ports_loose(_, _)
scan_ports_loose(available_ports, i) ==
    IF i > Len(available_ports) THEN None
    ELSE IF /\ available_ports[i].vid \in {id[1] : id \in BOARD_IDS}
            /\ available_ports[i].pid \in {id[2] : id \in BOARD_IDS}
         THEN available_ports[i].name
         ELSE scan_ports_loose(available_ports, i + 1)

\* The loop of find_microbit from port i on: the first port whose (vid, pid)
\* is in BOARD_IDS gives its name; None when the list is exhausted.
RECURSIVE scan_ports(_, _)
scan_ports(available_ports, i) ==
    IF i > Len(available_ports) THEN None
    ELSE IF <<available_ports[i].vid, available_ports[i].pid>> \in BOARD_IDS
         THEN available_ports[i].name
         ELSE scan_ports(available_ports, i + 1)

find_microbit(available_ports) == scan_ports(available_ports, 1)

-----------------------------------------------------------------------------
(* The REPL object *)

OsNames == {"posix", "nt", "java"}

\* REPL.__init__: the port the object refers to, or the exception raised.
REPL(os, port) ==
    IF os = "posix" THEN [raised |-> None, port |-> "/dev/" \o port]
    ELSE IF os = "nt" THEN [raised |-> None, port |-> port]
    ELSE [raised |-> "NotImplementedError", port |-> None]

-----------------------------------------------------------------------------
(* State and effects *)

\* Python truthiness of an optional string.
Truthy(x) == x # None /\ x # ""

Cur ==
    [repl |-> repl, fs |-> fs,
     user_defined_microbit_path |-> user_defined_microbit_path,
     view_repl |-> view_repl, view_fs |-> view_fs]

\* The effect of an operation that returns at once: nothing called, nothing
\* shown, nothing raised, state as it was.
Quiet(s) ==
    [repl |-> s.repl, fs |-> s.fs,
     user_defined_microbit_path |-> s.user_defined_microbit_path,
     view_repl |-> s.view_repl, view_fs |-> s.view_fs,
     calls |-> <<>>, msgs |-> <<>>, flashed |-> <<>>, raised |-> None,
     result |-> None]

\* The state part of an effect.
StateOf(e) ==
    [repl |-> e.repl, fs |-> e.fs,
     user_defined_microbit_path |-> e.user_defined_microbit_path,
     view_repl |-> e.view_repl, view_fs |-> e.view_fs]

Call(fn, arg) == [fn |-> fn, arg |-> arg]

\* view.show_message(message, information, icon); `label` is the tab label
\* and `runtime` the runtime path that flash() formats into its message.
Msg(message, information, icon) ==
    [message |-> message, information |-> information, icon |-> icon,
     label |-> None, runtime |-> None]

NOT_FOUND == "Could not find an attached BBC micro:bit."
FS_CONFLICT == "File system and REPL cannot work at the same time."
REPL_CONFLICT == "REPL and file system cannot work at the same time."

FS_CONNECTED == "RuntimeError: File system already connected"
REPL_RUNNING == "RuntimeError: REPL already running"
REPL_NOT_RUNNING == "RuntimeError: REPL not running"
FS_NOT_RUNNING == "RuntimeError: File system not running"

\* Outcome of a collaborator call that may fail.
Outcomes == {"ok", "IOError", "Exception"}

-----------------------------------------------------------------------------
(* Session operations.  in.probe: microfs.get_serial(); in.view: the view's *)
(* add_/remove_ call; in.ports: QSerialPortInfo.availablePorts().           *)

\* As Editor_add_fs, but without the test that the REPL is off.
Editor_add_fs_unguarded(s, in) ==
    IF s.fs = None /\ in.probe = "ok" /\ in.view = "ok"
    THEN [Quiet(s) EXCEPT !.fs = "True", !.view_fs = TRUE,
              !.calls = <<Call("microfs.get_serial", None),
                          Call("view.add_filesystem", None)>>]
    ELSE Quiet(s)

\* As Editor_add_fs, but an IOError is swallowed without a message.
Editor_add_fs_swallow(s, in) ==
    IF s.repl = None /\ s.fs = None /\ in.probe = "ok" /\ in.view = "ok"
    THEN [Quiet(s) EXCEPT !.fs = "True", !.view_fs = TRUE,
              !.calls = <<Call("microfs.get_serial", None),
                          Call("view.add_filesystem", None)>>]
    ELSE Quiet(s)

Editor_add_fs(s, in) ==
    IF s.repl = None /\ s.fs = None
    THEN IF in.probe = "IOError"
         THEN [Quiet(s) EXCEPT
                  !.calls = <<Call("microfs.get_serial", None)>>,
                  !.msgs = <<Msg(NOT_FOUND, "Please make sure the device is plugged into this computer.", None)>>]
         ELSE IF in.probe = "Exception"
         THEN [Quiet(s) EXCEPT
                  !.calls = <<Call("microfs.get_serial", None)>>,
                  !.raised = "Exception"]
         ELSE IF in.view = "IOError"
         THEN [Quiet(s) EXCEPT
                  !.calls = <<Call("microfs.get_serial", None),
                              Call("view.add_filesystem", None)>>,
                  !.msgs = <<Msg(NOT_FOUND, "Please make sure the device is plugged into this computer.", None)>>]
         ELSE IF in.view = "Exception"
         THEN [Quiet(s) EXCEPT
                  !.calls = <<Call("microfs.get_serial", None),
                              Call("view.add_filesystem", None)>>,
                  !.raised = "Exception"]
         ELSE [Quiet(s) EXCEPT
                  !.fs = "True", !.view_fs = TRUE,
                  !.calls = <<Call("microfs.get_serial", None),
                              Call("view.add_filesystem", None)>>]
    ELSE Quiet(s)

Editor_remove_fs(s, in) ==
    IF s.fs = None
    THEN [Quiet(s) EXCEPT !.raised = FS_NOT_RUNNING]
    ELSE IF in.view # "ok"
    THEN [Quiet(s) EXCEPT
             !.calls = <<Call("view.remove_filesystem", None)>>,
             !.raised = in.view]
    ELSE [Quiet(s) EXCEPT
             !.fs = None, !.view_fs = FALSE,
             !.calls = <<Call("view.remove_filesystem", None)>>]

\* As add_repl_guard, but without the test of self.fs.
add_repl_guard_nofs(s) ==
    IF s.repl # None THEN REPL_RUNNING ELSE None

\* The two tests add_repl starts with: the error raised, or None.
add_repl_guard(s) ==
    IF s.fs # None THEN FS_CONNECTED
    ELSE IF s.repl # None THEN REPL_RUNNING
    ELSE None

Editor_add_repl(s, os, in) ==
    IF add_repl_guard(s) # None
    THEN [Quiet(s) EXCEPT !.raised = add_repl_guard(s)]
    ELSE LET mb_port == find_microbit(in.ports)
             found == [Quiet(s) EXCEPT
                          !.calls = <<Call("find_microbit", None)>>]
         IN  IF Truthy(mb_port)
             THEN LET r == REPL(os, mb_port)
                      made == [found EXCEPT
                                  !.calls = @ \o <<Call("REPL", mb_port)>>]
                      shown == [made EXCEPT
                                   !.repl = r.port,
                                   !.calls = @ \o <<Call("view.add_repl", r.port)>>]
                  IN  IF r.raised # None
                      THEN made      \* except Exception: logged only
                      ELSE IF in.view = "IOError"
                      THEN [shown EXCEPT
                               !.repl = None,
                               !.msgs = <<Msg("IOError", "Click the device's reset button, wait a few seconds and then try again.", None)>>]
                      ELSE IF in.view = "Exception"
                      THEN shown     \* except Exception: self.repl stays set
                      ELSE [shown EXCEPT !.view_repl = TRUE]
             ELSE [found EXCEPT
                      !.msgs = <<Msg(NOT_FOUND, "Please make sure the device is plugged into this computer.", None)>>]

\* As Editor_remove_repl, but without the test that a REPL is running.
Editor_remove_repl_unchecked(s, in) ==
    IF in.view # "ok"
    THEN [Quiet(s) EXCEPT
             !.calls = <<Call("view.remove_repl", None)>>,
             !.raised = in.view]
    ELSE [Quiet(s) EXCEPT
             !.repl = None, !.view_repl = FALSE,
             !.calls = <<Call("view.remove_repl", None)>>]

Editor_remove_repl(s, in) ==
    IF s.repl = None
    THEN [Quiet(s) EXCEPT !.raised = REPL_NOT_RUNNING]
    ELSE IF in.view # "ok"
    THEN [Quiet(s) EXCEPT
             !.calls = <<Call("view.remove_repl", None)>>,
             !.raised = in.view]
    ELSE [Quiet(s) EXCEPT
             !.repl = None, !.view_repl = FALSE,
             !.calls = <<Call("view.remove_repl", None)>>]

\* As Editor_toggle_fs, but without the branch for a running REPL.
Editor_toggle_fs_noconflict(s, in) ==
    IF s.fs = None THEN Editor_add_fs(s, in) ELSE Editor_remove_fs(s, in)

\* As Editor_toggle_fs, but with the two branches for self.fs exchanged.
Editor_toggle_fs_swapped(s, in) ==
    IF s.repl = None
    THEN IF s.fs = None THEN Editor_remove_fs(s, in) ELSE Editor_add_fs(s, in)
    ELSE [Quiet(s) EXCEPT
             !.msgs = <<Msg(FS_CONFLICT, "Toggle the REPL off and try again.", None)>>]

Editor_toggle_fs(s, in) ==
    IF s.repl = None
    THEN IF s.fs = None THEN Editor_add_fs(s, in) ELSE Editor_remove_fs(s, in)
    ELSE [Quiet(s) EXCEPT
             !.msgs = <<Msg(FS_CONFLICT, "Toggle the REPL off and try again.", None)>>]

\* As Editor_toggle_repl, but never closing the REPL.
Editor_toggle_repl_open(s, os, in) ==
    IF s.fs = None
    THEN Editor_add_repl(s, os, in)
    ELSE [Quiet(s) EXCEPT
             !.msgs = <<Msg(REPL_CONFLICT, "Toggle the file system off and try again.", None)>>]

\* As Editor_toggle_repl, but leaving a running REPL as it is.
Editor_toggle_repl_once(s, os, in) ==
    IF s.fs = None
    THEN IF s.repl = None THEN Editor_add_repl(s, os, in) ELSE Quiet(s)
    ELSE [Quiet(s) EXCEPT
             !.msgs = <<Msg(REPL_CONFLICT, "Toggle the file system off and try again.", None)>>]

Editor_toggle_repl(s, os, in) ==
    IF s.fs = None
    THEN IF s.repl = None THEN Editor_add_repl(s, os, in)
         ELSE Editor_remove_repl(s, in)
    ELSE [Quiet(s) EXCEPT
             !.msgs = <<Msg(REPL_CONFLICT, "Toggle the file system off and try again.", None)>>]

-----------------------------------------------------------------------------
(* Flashing.  in.tab: view.current_tab; in.found: uflash.find_microbit();   *)
(* in.answer: view.get_microbit_path(); in.existing: the paths for which    *)
(* os.path.exists holds during the call; in.rt: get_runtime_hex_path();     *)
(* in.rt_exists: os.path.exists(rt_hex_path) when the message is built.     *)
(* uflash.flash is taken to return normally.                                *)

SCRIPT_LIMIT == 8192

HOME_DIRECTORY == "~"
MOUNT == "/media/MICROBIT"
USER_PATH == "/mnt/usb"
RUNTIME_HEX == "mu_code/custom.hex"

\* A text is counted by its one-byte and its two-byte characters.
Texts ==
    { [ascii |-> 5, wide |-> 0], [ascii |-> 8191, wide |-> 0],
      [ascii |-> 8190, wide |-> 1], [ascii |-> 8192, wide |-> 1] }
Tabs == [label : {"untitled"}, text : Texts]
\* current_tab is None
NoTab == [label |-> None, text |-> [ascii |-> 0, wide |-> 0]]

\* tab.text().encode('utf-8'): the bytes, known by their text and their count.
encode_utf8(text) == [text |-> text, len |-> text.ascii + 2 * text.wide]

TOO_LONG == "Your script is too long!"
FLASHING == "Flashing onto the micro:bit."

\* As script_too_long, but letting a script of exactly the limit through.
script_too_long_gt(python_script) == python_script.len > SCRIPT_LIMIT

\* len(python_script) >= 8192
script_too_long(python_script) == python_script.len >= SCRIPT_LIMIT

\* The user is asked: discovery found nothing and no path is remembered.
flash_asks(s, in) ==
    in.found = None /\ ~Truthy(s.user_defined_microbit_path)

\* As flash_path, but preferring the remembered path to the mount found.
flash_path_remembered_first(s, in) ==
    IF Truthy(s.user_defined_microbit_path)
    THEN s.user_defined_microbit_path
    ELSE IF in.found # None THEN in.found
    ELSE in.answer

\* path_to_microbit when it is checked: the mount found, else the remembered
\* path, else the user's answer.
flash_path(s, in) ==
    IF in.found # None THEN in.found
    ELSE IF Truthy(s.user_defined_microbit_path)
    THEN s.user_defined_microbit_path
    ELSE in.answer

\* Everything up to the check of the path: discovery, the question to the
\* user with its answer stored, and os.path.exists if the path is truthy.
flash_locate(s, in) ==
    [Quiet(s) EXCEPT
        !.user_defined_microbit_path =
            IF flash_asks(s, in) THEN in.answer ELSE @,
        !.calls =
            <<Call("uflash.find_microbit", None)>>
            \o (IF flash_asks(s, in)
                THEN <<Call("view.get_microbit_path", HOME_DIRECTORY)>>
                ELSE <<>>)
            \o (IF Truthy(flash_path(s, in))
                THEN <<Call("os.path.exists", flash_path(s, in))>>
                ELSE <<>>)]

\* As flash_write, but naming the runtime without checking that it exists.
flash_write_any_runtime(located, path_to_microbit, python_script, in) ==
    [located EXCEPT
        !.calls = @ \o <<Call("get_runtime_hex_path", None),
                         Call("uflash.flash", path_to_microbit)>>,
        !.flashed = <<[paths_to_microbits |-> <<path_to_microbit>>,
                       python_script |-> python_script,
                       path_to_runtime |-> in.rt]>>,
        !.msgs = <<[Msg(FLASHING, "When the yellow LED stops flashing the device will restart", "Information")
                    EXCEPT !.label = in.tab.label, !.runtime = in.rt]>>]

\* The branch that flashes: located is the effect so far.
flash_write(located, path_to_microbit, python_script, in) ==
    [located EXCEPT
        !.calls = @ \o <<Call("get_runtime_hex_path", None),
                         Call("uflash.flash", path_to_microbit)>>
                    \o (IF in.rt # None
                        THEN <<Call("os.path.exists", in.rt)>>
                        ELSE <<>>),
        !.flashed = <<[paths_to_microbits |-> <<path_to_microbit>>,
                       python_script |-> python_script,
                       path_to_runtime |-> in.rt]>>,
        !.msgs = <<[Msg(FLASHING, "When the yellow LED stops flashing the device will restart", "Information")
                    EXCEPT !.label = in.tab.label,
                           !.runtime =
                               IF in.rt # None /\ in.rt_exists
                               THEN in.rt ELSE None]>>]

\* As flash_not_found, but leaving the remembered path alone.
flash_not_found_keep(located) ==
    [located EXCEPT
        !.msgs = <<Msg(NOT_FOUND, "Please ensure you leave enough time", None)>>]

\* The else branch: the remembered path is reset and the user told.
flash_not_found(located) ==
    [located EXCEPT
        !.user_defined_microbit_path = None,
        !.msgs = <<Msg(NOT_FOUND, "Please ensure you leave enough time", None)>>]

Editor_flash(s, in) ==
    LET python_script == encode_utf8(in.tab.text)
        path_to_microbit == flash_path(s, in)
    IN  IF in.tab = NoTab THEN Quiet(s)
        ELSE IF script_too_long(python_script)
        THEN [Quiet(s) EXCEPT
                 !.msgs = <<[Msg("Unable to flash", TOO_LONG, "Warning")
                             EXCEPT !.label = in.tab.label]>>]
        ELSE IF Truthy(path_to_microbit) /\ path_to_microbit \in in.existing
        THEN flash_write(flash_locate(s, in), path_to_microbit,
                         python_script, in)
        ELSE flash_not_found(flash_locate(s, in))

-----------------------------------------------------------------------------
(* Inputs *)

FsInputs == [ports : {<<>>}, probe : Outcomes, view : Outcomes]
\* Enumerations seen by the session operations: no port, a port that is not a
\* board, a board, and a board behind a port that is not one.
SessionPortLists ==
    { <<>>,
      <<[vid |-> 3368, pid |-> 32779, name |-> "ttyACM0"]>>,
      <<[vid |-> 3368, pid |-> 516, name |-> "ttyACM0"]>>,
      <<[vid |-> 3368, pid |-> 32779, name |-> "ttyACM0"],
        [vid |-> 9114, pid |-> 32779, name |-> "ttyACM1"]>> }
ReplInputs == [ports : SessionPortLists, probe : {"ok"}, view : Outcomes]
RemoveInputs == [ports : {<<>>}, probe : {"ok"}, view : Outcomes]
NoInput == [ports |-> <<>>, probe |-> "ok", view |-> "ok"]

\* The runtime: none configured, configured and present, configured and gone
\* by the time the message is built.
Runtimes ==
    { [rt |-> None, rt_exists |-> FALSE],
      [rt |-> RUNTIME_HEX, rt_exists |-> TRUE],
      [rt |-> RUNTIME_HEX, rt_exists |-> FALSE] }

FlashIn(tab, found, answer, existing, r) ==
    [tab |-> tab, found |-> found, answer |-> answer, existing |-> existing,
     rt |-> r.rt, rt_exists |-> r.rt_exists]

\* The user is asked only when discovery found nothing, so an answer is drawn
\* only then; without a tab nothing else is read.
FlashInputs ==
    { FlashIn(NoTab, None, "", {}, [rt |-> None, rt_exists |-> FALSE]) }
    \cup { FlashIn(tab, MOUNT, "", existing, r) :
               tab \in Tabs, existing \in SUBSET {MOUNT, USER_PATH},
               r \in Runtimes }
    \cup { FlashIn(tab, None, answer, existing, r) :
               tab \in Tabs, answer \in {"", USER_PATH},
               existing \in SUBSET {MOUNT, USER_PATH}, r \in Runtimes }

-----------------------------------------------------------------------------
(* Code checking *)

\* A text is a sequence of tokens: a maximal run of word characters
\* ([A-Za-z0-9_]) is one token, every other character a token of its own.
NonWord == {" ", ":", ".", ",", "'", "*", "(", ")", "!", "\n"}

\* \w+ on one token.
IsWord(t) == t \notin NonWord

\* int() on the runs of digits that occur.
int == ("0" :> 0 @@ "1" :> 1 @@ "2" :> 2 @@ "3" :> 3 @@ "5" :> 5 @@ "10" :> 10)

\* \d+ on one token.
IsDigits(t) == t \in DOMAIN int

\* str.lower() on one token.
lower(t) ==
    CASE t = "None" -> "none"
      [] t = "E303" -> "e303"
      [] t = "Blank" -> "blank"
      [] OTHER -> t

\* The first character of a token in upper case.
upper_first(t) ==
    CASE t = "too" -> "Too"
      [] t = "comparison" -> "Comparison"
      [] t = "whitespace" -> "Whitespace"
      [] t = "blank" -> "Blank"
      [] t = "e303" -> "E303"
      [] t = "none" -> "None"
      [] OTHER -> t

\* str.capitalize(): first character upper case, all the others lower case.
capitalize(text) ==
    [i \in 1..Len(text) |->
        IF i = 1 THEN upper_first(lower(text[i])) ELSE lower(text[i])]

Min(S) == CHOOSE x \in S : \A y \in S : x <= y
Max(S) == CHOOSE x \in S : \A y \in S : y <= x

\* The text without its leading spaces: what is left after a greedy \s+.
RECURSIVE lstrip(_)
lstrip(text) ==
    IF text # <<>> /\ text[1] = " " THEN lstrip(Tail(text)) ELSE text

\* re.match found nothing.
NoMatch == [matched |-> FALSE, groups |-> <<>>]

\* STYLE_REGEX.match(result), r'.*:(\d+):(\d+):\s+(.*)': '.*' is greedy, so
\* the location is the last place of the line where ':(\d+):(\d+):\s' fits.
STYLE_REGEX(result) ==
    LET starts == { k \in 1..Len(result) :
                      /\ k + 5 <= Len(result)
                      /\ result[k] = ":" /\ IsDigits(result[k + 1])
                      /\ result[k + 2] = ":" /\ IsDigits(result[k + 3])
                      /\ result[k + 4] = ":" /\ result[k + 5] = " " }
    IN  IF starts = {} THEN NoMatch
        ELSE LET k == Max(starts)
             IN  [matched |-> TRUE,
                  groups |-> <<result[k + 1], result[k + 3],
                               lstrip(SubSeq(result, k + 5, Len(result)))>>]

\* FLAKE_REGEX.match(message), r'.*:(\d+):\s+(.*)'.
FLAKE_REGEX(message) ==
    LET starts == { k \in 1..Len(message) :
                      /\ k + 3 <= Len(message)
                      /\ message[k] = ":" /\ IsDigits(message[k + 1])
                      /\ message[k + 2] = ":" /\ message[k + 3] = " " }
    IN  IF starts = {} THEN NoMatch
        ELSE LET k == Max(starts)
             IN  [matched |-> TRUE,
                  groups |-> <<message[k + 1],
                               lstrip(SubSeq(message, k + 3, Len(message)))>>]

IMPORTED_BUT_UNUSED == <<" ", "imported", " ", "but", " ", "unused">>

\* EXPAND_FALSE_POSITIVE.match(message),
\* r"^'microbit\.(\w+)' imported but unused$".
EXPAND_FALSE_POSITIVE(message) ==
    /\ Len(message) = 5 + Len(IMPORTED_BUT_UNUSED)
    /\ message[1] = "'" /\ message[2] = "microbit" /\ message[3] = "."
    /\ IsWord(message[4]) /\ message[5] = "'"
    /\ SubSeq(message, 6, Len(message)) = IMPORTED_BUT_UNUSED

\* The names EXPANDED_IMPORT imports, in its order.
ExpandedNames ==
    <<"pin15", "pin2", "pin0", "pin1", "pin3", "pin6", "pin4", "i2c", "pin5",
      "pin7", "pin8", "Image", "pin9", "pin14", "pin16", "reset", "pin19",
      "temperature", "sleep", "pin20", "button_a", "button_b", "running_time",
      "accelerometer", "display", "uart", "spi", "panic", "pin13", "pin12",
      "pin11", "pin10", "compass">>

\* names[i], names[i+1], ... separated by ", ".
RECURSIVE Listed(_, _)
Listed(names, i) ==
    IF i > Len(names) THEN <<>>
    ELSE IF i = Len(names) THEN <<names[i]>>
    ELSE <<names[i], ",", " ">> \o Listed(names, i + 1)

FROM_MICROBIT_IMPORT == <<"from", " ", "microbit", " ", "import", " ">>

\* "from microbit import *"
IMPORT_ALL == FROM_MICROBIT_IMPORT \o <<"*">>

EXPANDED_IMPORT == FROM_MICROBIT_IMPORT \o Listed(ExpandedNames, 1)

\* The places of text where sub starts.
find(text, sub) ==
    { i \in 1..Len(text) :
        /\ i + Len(sub) - 1 <= Len(text)
        /\ SubSeq(text, i, i + Len(sub) - 1) = sub }

\* sub in text
contains(text, sub) == find(text, sub) # {}

\* text.replace(old, new)
RECURSIVE replace(_, _, _)
replace(text, old, new) ==
    IF ~contains(text, old) THEN text
    ELSE LET i == Min(find(text, old))
         IN  SubSeq(text, 1, i - 1) \o new
                 \o replace(SubSeq(text, i + Len(old), Len(text)), old, new)

\* text.split(sep, 1)
split(text, sep) ==
    LET at == { i \in 1..Len(text) : text[i] = sep }
    IN  IF at = {} THEN <<text>>
        ELSE <<SubSeq(text, 1, Min(at) - 1),
               SubSeq(text, Min(at) + 1, Len(text))>>

\* {}
EmptyDict == [k \in {} |-> <<>>]

\* if key not in d: d[key] = []; d[key].append(item)
dict_append(d, key, item) ==
    IF key \in DOMAIN d THEN [d EXCEPT ![key] = Append(@, item)]
    ELSE d @@ (key :> <<item>>)

SYNTAX_ERROR ==
    <<"Syntax", " ", "error", ".", " ", "Python", " ", "cannot", " ",
      "understand", " ", "this", " ", "line", ".", " ", "Check", " ", "for",
      " ", "missing", " ", "characters", "!">>

MuFlakeCodeReporter_unexpectedError(log, filename, message) ==
    Append(log, [line_no |-> 0, filename |-> filename, message |-> message])

\* pyflakes hands line_no over as an int, which int() returns as it is.
MuFlakeCodeReporter_syntaxError(log, filename, message, line_no, column, source) ==
    Append(log, [message |-> SYNTAX_ERROR, line_no |-> line_no - 1,
                 column |-> column - 1, source |-> source])

MuFlakeCodeReporter_flake(log, message) ==
    LET matcher == FLAKE_REGEX(message)
    IN  IF matcher.matched
        THEN Append(log, [line_no |-> int[matcher.groups[1]] - 1,
                          column |-> 0, message |-> matcher.groups[2]])
        ELSE Append(log, [line_no |-> 0, column |-> 0, message |-> message])

\* check(code, filename, reporter): pyflakes reports its findings, in order,
\* through the reporter; reporter.log is what the reporter made of them.
RECURSIVE check(_, _, _)
check(findings, i, log) ==
    IF i > Len(findings) THEN log
    ELSE LET f == findings[i]
         IN  check(findings, i + 1,
                   CASE f.kind = "unexpectedError" ->
                            MuFlakeCodeReporter_unexpectedError(
                                log, f.filename, f.message)
                     [] f.kind = "syntaxError" ->
                            MuFlakeCodeReporter_syntaxError(
                                log, f.filename, f.message, f.line_no,
                                f.column, f.source)
                     [] f.kind = "flake" ->
                            MuFlakeCodeReporter_flake(log, f.message))

\* As flake_skipped, but skipping nothing.
flake_skipped_never(import_all, message) == FALSE

\* As flake_skipped, but without looking at import_all.
flake_skipped_always(import_all, message) == EXPAND_FALSE_POSITIVE(message)

\* The guard of check_flake's loop: this log entry is left out.
flake_skipped(import_all, message) ==
    import_all /\ EXPAND_FALSE_POSITIVE(message)

RECURSIVE flake_feedback(_, _, _, _)
flake_feedback(log, i, import_all, feedback) ==
    IF i > Len(log) THEN feedback
    ELSE flake_feedback(log, i + 1, import_all,
             IF flake_skipped(import_all, log[i].message) THEN feedback
             ELSE dict_append(feedback, log[i].line_no, log[i]))

\* check_flake(filename, code), with the findings pyflakes has for the code
\* it is handed; `checked` is that code.
check_flake(filename, code, findings) ==
    LET import_all == contains(code, IMPORT_ALL)
        checked == IF import_all THEN replace(code, IMPORT_ALL, EXPANDED_IMPORT)
                   ELSE code
    IN  [feedback |-> flake_feedback(check(findings, 1, <<>>), 1, import_all,
                                     EmptyDict),
         checked |-> checked]

ABOVE_THIS_LINE == <<" ", "above", " ", "this", " ", "line">>

\* As style_entry, but treating E303 like every other code.
style_entry_plain(line_no, col, code, description) ==
    [line_no |-> line_no, column |-> int[col] - 1,
     message |-> capitalize(description), code |-> code]

\* As style_entry, but with the column as pycodestyle counts it.
style_entry_column(line_no, col, code, description) ==
    [line_no |-> line_no, column |-> int[col],
     message |-> capitalize(IF code = <<"E303">>
                            THEN description \o ABOVE_THIS_LINE
                            ELSE description),
     code |-> code]

\* The entry check_pycodestyle appends for one matched line.
style_entry(line_no, col, code, description) ==
    [line_no |-> line_no, column |-> int[col] - 1,
     message |-> capitalize(IF code = <<"E303">>
                            THEN description \o ABOVE_THIS_LINE
                            ELSE description),
     code |-> code]

\* The loop of check_pycodestyle over results.split('\n'); unpacking
\* msg.split(' ', 1) into code and description raises ValueError unless the
\* split gave two parts.
RECURSIVE style_parse(_, _, _)
style_parse(results, i, style_feedback) ==
    IF i > Len(results)
    THEN [style_feedback |-> style_feedback, raised |-> None]
    ELSE LET matcher == STYLE_REGEX(results[i])
         IN  IF ~matcher.matched
             THEN style_parse(results, i + 1, style_feedback)
             ELSE LET line_no == int[matcher.groups[1]] - 1
                      parts == split(matcher.groups[3], " ")
                  IN  IF Len(parts) # 2
                      THEN [style_feedback |-> EmptyDict,
                            raised |-> "ValueError"]
                      ELSE style_parse(results, i + 1,
                               dict_append(style_feedback, line_no,
                                   style_entry(line_no, matcher.groups[2],
                                               parts[1], parts[2])))

\* check_pycodestyle(code), with the lines pycodestyle printed for the code.
check_pycodestyle(results) == style_parse(results, 1, EmptyDict)

\* view.reset_annotations(): the annotations the view holds afterwards.
view_reset_annotations(held) == EmptyDict

\* view.annotate_code(feedback, annotation_type): every entry of feedback is
\* added under its line, after the entries the view already holds there.
view_annotate_code(held, feedback, annotation_type) ==
    [k \in DOMAIN held \cup DOMAIN feedback |->
        (IF k \in DOMAIN held THEN held[k] ELSE <<>>)
        \o (IF k \in DOMAIN feedback
            THEN [i \in 1..Len(feedback[k]) |->
                     [annotation_type |-> annotation_type,
                      entry |-> feedback[k][i]]]
            ELSE <<>>)]

\* current_tab is None
NoCodeTab == [path |-> None, text |-> <<>>, open |-> FALSE]

CodeTab(path, text) == [path |-> path, text |-> text, open |-> TRUE]

\* The effect of check_code and the annotations it leaves in the view.
Checked(e, held) == [eff |-> e, annotations |-> held]

\* As Editor_check_code, but leaving the view's annotations in place.
Editor_check_code_keep(s, held, in) ==
    IF ~in.tab.open THEN Checked(Quiet(s), held)
    ELSE LET filename == IF Truthy(in.tab.path) THEN in.tab.path
                         ELSE "untitled"
             flake == check_flake(filename, in.tab.text, in.findings)
             marked == IF flake.feedback # EmptyDict
                       THEN view_annotate_code(held, flake.feedback, "error")
                       ELSE held
             pep8 == check_pycodestyle(in.results)
         IN  IF pep8.raised # None
             THEN Checked([Quiet(s) EXCEPT !.raised = pep8.raised], marked)
             ELSE Checked(Quiet(s),
                          IF pep8.style_feedback # EmptyDict
                          THEN view_annotate_code(marked, pep8.style_feedback,
                                                  "style")
                          ELSE marked)

\* As Editor_check_code, but showing the style feedback only when pyflakes
\* found nothing.
Editor_check_code_either(s, held, in) ==
    LET reset == view_reset_annotations(held)
    IN  IF ~in.tab.open THEN Checked(Quiet(s), reset)
        ELSE LET filename == IF Truthy(in.tab.path) THEN in.tab.path
                             ELSE "untitled"
                 flake == check_flake(filename, in.tab.text, in.findings)
                 pep8 == check_pycodestyle(in.results)
             IN  IF flake.feedback # EmptyDict
                 THEN Checked(Quiet(s),
                              view_annotate_code(reset, flake.feedback,
                                                 "error"))
                 ELSE IF pep8.raised # None
                 THEN Checked([Quiet(s) EXCEPT !.raised = pep8.raised], reset)
                 ELSE Checked(Quiet(s),
                              IF pep8.style_feedback # EmptyDict
                              THEN view_annotate_code(reset,
                                       pep8.style_feedback, "style")
                              ELSE reset)

\* As Editor_check_code, but forgetting the path to the device.
Editor_check_code_forget(s, held, in) ==
    Checked([Quiet(s) EXCEPT !.user_defined_microbit_path = None],
            view_reset_annotations(held))

\* Editor.check_code(): held is what the view holds when it is called.
Editor_check_code(s, held, in) ==
    LET reset == view_reset_annotations(held)
        reset_call == <<Call("view.reset_annotations", None)>>
    IN  IF ~in.tab.open
        THEN Checked([Quiet(s) EXCEPT !.calls = reset_call], reset)
        ELSE LET filename == IF Truthy(in.tab.path) THEN in.tab.path
                             ELSE "untitled"
                 flake == check_flake(filename, in.tab.text, in.findings)
                 flake_calls ==
                     reset_call
                     \o <<Call("check",
                               [code |-> flake.checked, filename |-> filename])>>
                     \o (IF flake.feedback # EmptyDict
                         THEN <<Call("view.annotate_code", "error")>>
                         ELSE <<>>)
                 marked == IF flake.feedback # EmptyDict
                           THEN view_annotate_code(reset, flake.feedback,
                                                   "error")
                           ELSE reset
                 pep8 == check_pycodestyle(in.results)
             IN  IF pep8.raised # None
                 THEN Checked([Quiet(s) EXCEPT !.calls = flake_calls,
                                               !.raised = pep8.raised],
                              marked)
                 ELSE IF pep8.style_feedback # EmptyDict
                 THEN Checked([Quiet(s) EXCEPT
                                  !.calls = flake_calls
                                      \o <<Call("view.annotate_code",
                                                "style")>>],
                              view_annotate_code(marked, pep8.style_feedback,
                                                 "style"))
                 ELSE Checked([Quiet(s) EXCEPT !.calls = flake_calls], marked)


\* Most lines of analyzer output in one run.
MaxResults == 3
\* Most findings pyflakes reports in one run.
MaxFindings == 2

FILE == <<"foo", ".", "py">>

\* A line as pycodestyle prints it: <file>:<line>:<col>: <code> <text>.
StyleLine(w) ==
    w.file \o <<":", w.line, ":", w.col, ":", " ", w.code, " ">>
        \o w.description

StyleForm(line, col, code, description) ==
    [file |-> FILE, line |-> line, col |-> col, code |-> code,
     description |-> description]

TOO_MANY == <<"too", " ", "many", " ", "blank", " ", "lines">>
COMPARISON == <<"comparison", " ", "to", " ", "None">>
WHITESPACE == <<"whitespace", " ", "before", " ", "'", ":", "'">>
BLANK_LINE == <<"blank", " ", "line", " ", "at", " ", "end">>

\* Lines of the form pycodestyle prints.
StyleForms ==
    { StyleForm("10", "5", "E303", TOO_MANY),
      StyleForm("1", "1", "E711", COMPARISON),
      StyleForm("3", "10", "E203", WHITESPACE),
      StyleForm("10", "1", "W391", BLANK_LINE),
      StyleForm("0", "1", "E902", COMPARISON) }

\* A location and a code with nothing after the code.
NO_DESCRIPTION == FILE \o <<":", "1", ":", "1", ":", " ", "E303">>
\* A location without a column.
NO_COLUMN == FILE \o <<":", "1", ":", " ", "E501", " ", "line", " ", "long">>

\* Other lines: the empty line after the last '\n', and lines cut short.
OtherLines == { <<>>, NO_DESCRIPTION, NO_COLUMN }

RawLines == { StyleLine(w) : w \in StyleForms } \cup OtherLines

\* The sequences of at most n elements of S.
SeqUpTo(S, n) == UNION { [1..m -> S] : m \in 0..n }

\* What pyflakes hands to the reporter.
Finding(kind, message, line_no, column) ==
    [kind |-> kind, filename |-> FILE, message |-> message,
     line_no |-> line_no, column |-> column, source |-> <<>>]

\* A message of pyflakes as a string: <file>:<line>: <text>.
FlakeLine(line, text) == FILE \o <<":", line, ":", " ">> \o text

Unused(name) == <<"'">> \o name \o <<"'">> \o IMPORTED_BUT_UNUSED

UNDEFINED_NAME == <<"undefined", " ", "name", " ", "'", "x", "'">>
PROBLEM_DECODING == <<"problem", " ", "decoding", " ", "source">>

Findings ==
    { Finding("flake", FlakeLine("1", Unused(<<"microbit", ".", "pin15">>)), 0, 0),
      Finding("flake", FlakeLine("1", Unused(<<"microbit", ".", "compass">>)), 0, 0),
      Finding("flake", FlakeLine("2", Unused(<<"microbit", ".", "music">>)), 0, 0),
      Finding("flake", FlakeLine("3", Unused(<<"os">>)), 0, 0),
      Finding("flake", FlakeLine("5", UNDEFINED_NAME), 0, 0),
      Finding("flake", PROBLEM_DECODING, 0, 0),
      Finding("syntaxError", <<"invalid", " ", "syntax">>, 3, 5),
      Finding("unexpectedError", PROBLEM_DECODING, 0, 0) }

IMPORT_OS == <<"import", " ", "os">>

\* Scripts: with the wildcard import, with a plain import, with one name
\* imported from microbit.
Codes ==
    { IMPORT_ALL \o <<"\n">> \o IMPORT_OS,
      IMPORT_OS,
      FROM_MICROBIT_IMPORT \o <<"pin15">> \o <<"\n">> \o IMPORT_OS }

FlakeInputs == [code : Codes, findings : SeqUpTo(Findings, MaxFindings)]

CheckIn(tab, findings, results) ==
    [tab |-> tab, findings |-> findings, results |-> results]

CodeTabs ==
    { CodeTab(None, IMPORT_ALL \o <<"\n">> \o IMPORT_OS),
      CodeTab("foo.py", IMPORT_OS) }

CheckFindings ==
    { <<>>,
      <<Finding("flake", FlakeLine("3", Unused(<<"os">>)), 0, 0)>>,
      <<Finding("flake", FlakeLine("1", Unused(<<"microbit", ".", "pin15">>)), 0, 0),
        Finding("flake", FlakeLine("3", Unused(<<"os">>)), 0, 0)>>,
      <<Finding("syntaxError", <<"invalid", " ", "syntax">>, 3, 5),
        Finding("flake", FlakeLine("5", UNDEFINED_NAME), 0, 0)>> }

CheckResults ==
    { <<>>,
      <<StyleLine(StyleForm("3", "10", "E203", WHITESPACE)), <<>>>>,
      <<StyleLine(StyleForm("3", "10", "E203", WHITESPACE)),
        StyleLine(StyleForm("10", "5", "E303", TOO_MANY)),
        StyleLine(StyleForm("10", "1", "W391", BLANK_LINE)), <<>>>>,
      <<StyleLine(StyleForm("10", "5", "E303", TOO_MANY)), NO_DESCRIPTION,
        <<>>>>,
      <<NO_COLUMN, <<>>>> }

CheckInputs ==
    { CheckIn(NoCodeTab, <<>>, <<>>) }
    \cup { CheckIn(tab, findings, results) :
               tab \in CodeTabs, findings \in CheckFindings,
               results \in CheckResults }

\* The checks drawn where the session and the flashing are explored too: no
\* tab, a script without findings, and one whose style output cannot be
\* unpacked.
FrameCheckInputs ==
    { CheckIn(NoCodeTab, <<>>, <<>>),
      CheckIn(CodeTab("foo.py", IMPORT_OS), <<>>, <<<<>>>>),
      CheckIn(CodeTab("foo.py", IMPORT_OS), <<>>, <<NO_DESCRIPTION, <<>>>>) }

-----------------------------------------------------------------------------
(* add_fs and add_repl run by two callers, statement by statement.  Each   *)
(* caller stands before its tests ("called"), between its tests and its    *)
(* assignment, or after its return ("returned").                            *)

\* No caller runs an operation statement by statement.
NoCallers ==
    [add_fs |-> "returned", add_repl |-> "returned", serial |-> TRUE,
     overlap |-> FALSE]

\* The caller has passed the tests of its operation and has not returned.
InFlight(at) == at \notin {"called", "returned"}

\* With the operations serialized, a caller enters its operation only when
\* the other caller is not inside its own.
MayEnter(serial, other) == serial => ~InFlight(other)

\* As add_fs_guard, but without the test that the REPL is off.
add_fs_guard_norepl(s) == s.fs = None

\* The two tests add_fs starts with.
add_fs_guard(s) == s.repl = None /\ s.fs = None

-----------------------------------------------------------------------------
(* Actions *)

\* Store the effect e of operation op, called with inputs in.
Apply(op, in, e) ==
    /\ repl' = e.repl
    /\ fs' = e.fs
    /\ user_defined_microbit_path' = e.user_defined_microbit_path
    /\ view_repl' = e.view_repl
    /\ view_fs' = e.view_fs
    /\ last' = [op |-> op, pre |-> Cur, kept |-> kept, in |-> in, eff |-> e]
    /\ UNCHANGED <<os_name, annotations, pc>>

Init ==
    /\ os_name \in OsNames
    /\ repl = None
    /\ fs = None
    /\ user_defined_microbit_path = None
    /\ view_repl = FALSE
    /\ view_fs = FALSE
    /\ annotations = EmptyDict
    /\ kept = None
    /\ pc = NoCallers
    /\ last = [op |-> "init", pre |-> Cur, kept |-> None, in |-> NoInput,
               eff |-> Quiet(Cur)]

add_fs ==
    \E in \in FsInputs :
        Apply("add_fs", in, Editor_add_fs(Cur, in)) /\ UNCHANGED kept

remove_fs ==
    \E in \in RemoveInputs :
        Apply("remove_fs", in, Editor_remove_fs(Cur, in)) /\ UNCHANGED kept

toggle_fs ==
    \E in \in FsInputs :
        Apply("toggle_fs", in, Editor_toggle_fs(Cur, in)) /\ UNCHANGED kept

add_repl ==
    \E in \in ReplInputs :
        Apply("add_repl", in, Editor_add_repl(Cur, os_name, in))
        /\ UNCHANGED kept

remove_repl ==
    \E in \in RemoveInputs :
        Apply("remove_repl", in, Editor_remove_repl(Cur, in))
        /\ UNCHANGED kept

toggle_repl ==
    \E in \in ReplInputs :
        Apply("toggle_repl", in, Editor_toggle_repl(Cur, os_name, in))
        /\ UNCHANGED kept

\* kept: set when the user was asked, gave a path and the flash to it
\* succeeded; dropped when a flash attempt finds that path gone.
flash ==
    \E in \in FlashInputs :
        LET e == Editor_flash(Cur, in)
            asked == \E i \in 1..Len(e.calls) :
                         e.calls[i].fn = "view.get_microbit_path"
        IN  /\ Apply("flash", in, e)
            /\ kept' = IF asked /\ e.flashed # <<>> THEN in.answer
                       ELSE IF e.calls # <<>> /\ kept \notin in.existing
                       THEN None
                       ELSE kept

Next ==
    \/ flash
    \/ add_fs
    \/ remove_fs
    \/ toggle_fs
    \/ add_repl
    \/ remove_repl
    \/ toggle_repl

Spec == Init /\ [][Next]_vars

-----------------------------------------------------------------------------
(* Board discovery on its own: an enumeration is drawn, find_microbit is    *)
(* applied to it and its return value recorded in last.eff.result.          *)

InitPorts ==
    /\ os_name \in OsNames
    /\ repl = None
    /\ fs = None
    /\ user_defined_microbit_path = None
    /\ view_repl = FALSE
    /\ view_fs = FALSE
    /\ annotations = EmptyDict
    /\ kept = None
    /\ pc = NoCallers
    /\ \E ports \in PortLists :
           last = [op |-> "availablePorts", pre |-> Cur, kept |-> None,
                   in |-> [NoInput EXCEPT !.ports = ports],
                   eff |-> Quiet(Cur)]

discover ==
    /\ last.op = "availablePorts"
    /\ last' = [last EXCEPT
                   !.op = "find_microbit",
                   !.eff = [Quiet(Cur) EXCEPT
                               !.result = find_microbit(last.in.ports)]]
    /\ UNCHANGED <<os_name, repl, fs, user_defined_microbit_path, view_repl,
                   view_fs, annotations, kept, pc>>

NextPorts == discover

SpecPorts == InitPorts /\ [][NextPorts]_vars

\* check_code() with its inputs drawn from inputs.
check_code_of(inputs) ==
    \E in \in inputs :
        LET r == Editor_check_code(Cur, annotations, in)
        IN  /\ repl' = r.eff.repl
            /\ fs' = r.eff.fs
            /\ user_defined_microbit_path' = r.eff.user_defined_microbit_path
            /\ view_repl' = r.eff.view_repl
            /\ view_fs' = r.eff.view_fs
            /\ annotations' = r.annotations
            /\ last' = [op |-> "check_code", pre |-> Cur, kept |-> kept,
                        in |-> in, eff |-> r.eff, held |-> annotations]
            /\ UNCHANGED <<os_name, kept, pc>>

check_code == check_code_of(CheckInputs)

NextCheck == check_code

\* The editor checking code, again and again.
SpecCheck == Init /\ [][NextCheck]_vars

check_code_frame == check_code_of(FrameCheckInputs)

NextFrame ==
    \/ Next
    \/ check_code_frame

\* The session, the flashing and the checking together.
SpecFrame == Init /\ [][NextFrame]_vars

\* Both callers are about to call; their operations are serialized or not.
InitCallers ==
    /\ os_name \in OsNames
    /\ repl = None
    /\ fs = None
    /\ user_defined_microbit_path = None
    /\ view_repl = FALSE
    /\ view_fs = FALSE
    /\ annotations = EmptyDict
    /\ kept = None
    /\ last = [op |-> "init", pre |-> Cur, kept |-> None, in |-> NoInput,
               eff |-> Quiet(Cur)]
    /\ \E serial \in BOOLEAN :
           pc = [add_fs |-> "called", add_repl |-> "called",
                 serial |-> serial, overlap |-> FALSE]

\* What a step of a caller leaves alone, besides the session.
CallerFrame ==
    UNCHANGED <<os_name, user_defined_microbit_path, annotations, kept, last>>

\* add_fs: if self.repl is None: if self.fs is None:
fs_test ==
    /\ pc.add_fs = "called"
    /\ MayEnter(pc.serial, pc.add_repl)
    /\ pc' = IF add_fs_guard(Cur)
             THEN [pc EXCEPT !.add_fs = "probe",
                             !.overlap = @ \/ InFlight(pc.add_repl)]
             ELSE [pc EXCEPT !.add_fs = "returned"]
    /\ UNCHANGED <<repl, fs, view_repl, view_fs>>
    /\ CallerFrame

\* add_fs: microfs.get_serial(); self._view.add_filesystem(...)
fs_show ==
    /\ pc.add_fs = "probe"
    /\ \E in \in FsInputs :
           IF in.probe = "ok" /\ in.view = "ok"
           THEN view_fs' = TRUE /\ pc' = [pc EXCEPT !.add_fs = "assign"]
           ELSE view_fs' = view_fs /\ pc' = [pc EXCEPT !.add_fs = "returned"]
    /\ UNCHANGED <<repl, fs, view_repl>>
    /\ CallerFrame

\* add_fs: self.fs = True
fs_assign ==
    /\ pc.add_fs = "assign"
    /\ fs' = "True"
    /\ pc' = [pc EXCEPT !.add_fs = "returned"]
    /\ UNCHANGED <<repl, view_repl, view_fs>>
    /\ CallerFrame

\* add_repl: if self.fs: raise ...; if self.repl is not None: raise ...
repl_test ==
    /\ pc.add_repl = "called"
    /\ MayEnter(pc.serial, pc.add_fs)
    /\ pc' = IF add_repl_guard(Cur) = None
             THEN [pc EXCEPT !.add_repl = "find",
                             !.overlap = @ \/ InFlight(pc.add_fs)]
             ELSE [pc EXCEPT !.add_repl = "returned"]
    /\ UNCHANGED <<repl, fs, view_repl, view_fs>>
    /\ CallerFrame

\* add_repl: mb_port = find_microbit(); if mb_port: self.repl = REPL(...)
repl_make ==
    /\ pc.add_repl = "find"
    /\ \E ports \in SessionPortLists :
           LET mb_port == find_microbit(ports)
           IN  IF Truthy(mb_port) /\ REPL(os_name, mb_port).raised = None
               THEN /\ repl' = REPL(os_name, mb_port).port
                    /\ pc' = [pc EXCEPT !.add_repl = "show"]
               ELSE /\ repl' = repl
                    /\ pc' = [pc EXCEPT !.add_repl = "returned"]
    /\ UNCHANGED <<fs, view_repl, view_fs>>
    /\ CallerFrame

\* add_repl: self._view.add_repl(self.repl) and the two handlers
repl_show ==
    /\ pc.add_repl = "show"
    /\ \E outcome \in Outcomes :
           /\ view_repl' = (view_repl \/ outcome = "ok")
           /\ repl' = IF outcome = "IOError" THEN None ELSE repl
    /\ pc' = [pc EXCEPT !.add_repl = "returned"]
    /\ UNCHANGED <<fs, view_fs>>
    /\ CallerFrame

\* A caller that has returned calls its operation again.
call_again ==
    /\ \E op \in {"add_fs", "add_repl"} :
           /\ pc[op] = "returned"
           /\ pc' = [pc EXCEPT ![op] = "called"]
    /\ UNCHANGED <<repl, fs, view_repl, view_fs>>
    /\ CallerFrame

NextCallers ==
    \/ fs_test
    \/ fs_show
    \/ fs_assign
    \/ repl_test
    \/ repl_make
    \/ repl_show
    \/ call_again

\* add_fs and add_repl interleaved statement by statement.
SpecCallers == InitCallers /\ [][NextCallers]_vars

NextSession ==
    \/ add_fs
    \/ remove_fs
    \/ toggle_fs
    \/ add_repl
    \/ remove_repl
    \/ toggle_repl

\* toggle_repl with the board attached and the view doing what it is asked.
toggle_repl_attached ==
    \E in \in ReplInputs :
        /\ Truthy(find_microbit(in.ports))
        /\ in.view = "ok"
        /\ Apply("toggle_repl", in, Editor_toggle_repl(Cur, os_name, in))
        /\ UNCHANGED kept

\* toggle_fs with the board answering and the view doing what it is asked.
toggle_fs_attached ==
    \E in \in FsInputs :
        /\ in.probe = "ok"
        /\ in.view = "ok"
        /\ Apply("toggle_fs", in, Editor_toggle_fs(Cur, in))
        /\ UNCHANGED kept

\* The user's toggling, with the board attached: a session that is on is
\* toggled off in the end, and from time to time a toggle finds the editor
\* with no session on.
Toggling ==
    /\ WF_vars(repl # None /\ toggle_repl_attached)
    /\ WF_vars(fs # None /\ toggle_fs_attached)
    /\ SF_vars(repl = None /\ fs = None /\ toggle_repl_attached)
    /\ SF_vars(repl = None /\ fs = None /\ toggle_fs_attached)

\* The session operations in any order, with a user who keeps toggling.
SpecLive == Init /\ [][NextSession]_vars /\ Toggling

\* The editor at rest, with the inputs in of a function about to be applied.
Given(op, in) ==
    /\ os_name \in OsNames
    /\ repl = None
    /\ fs = None
    /\ user_defined_microbit_path = None
    /\ view_repl = FALSE
    /\ view_fs = FALSE
    /\ annotations = EmptyDict
    /\ kept = None
    /\ pc = NoCallers
    /\ last = [op |-> op, in |-> in, out |-> None]

\* The function was applied: out is what it gave.
Given_out(op, out) ==
    /\ last' = [last EXCEPT !.op = op, !.out = out]
    /\ UNCHANGED <<os_name, repl, fs, user_defined_microbit_path, view_repl,
                   view_fs, annotations, kept, pc>>

InitStyle == \E results \in SeqUpTo(RawLines, MaxResults) : Given("results", results)

parse_style ==
    /\ last.op = "results"
    /\ Given_out("check_pycodestyle", check_pycodestyle(last.in))

NextStyle == parse_style

\* check_pycodestyle on every output of at most MaxResults lines.
SpecStyle == InitStyle /\ [][NextStyle]_vars

InitFlake == \E in \in FlakeInputs : Given("code", in)

filter_flake ==
    /\ last.op = "code"
    /\ Given_out("check_flake",
                 check_flake("foo.py", last.in.code, last.in.findings))

NextFlake == filter_flake

\* check_flake on every script with at most MaxFindings findings.
SpecFlake == InitFlake /\ [][NextFlake]_vars

-----------------------------------------------------------------------------
(* Properties *)

\* The last operation left the editor's state as it found it.
Unchanged == StateOf(last.eff) = last.pre

HasCall(e, fn) == \E i \in 1..Len(e.calls) : e.calls[i].fn = fn

\* Exactly one message was shown, and it is m.
Showed(e, m) == Len(e.msgs) = 1 /\ e.msgs[1].message = m

\* C1: after any sequence of add_fs, remove_fs, toggle_fs, add_repl,
\* remove_repl and toggle_repl calls from Idle, whatever discovery and the
\* probe answer, the REPL and the file system navigator are never both
\* active, neither in the editor's record nor in the view.
C1_NeverBothActive ==
    /\ ~(repl # None /\ fs # None)
    /\ ~(view_repl /\ view_fs)

\* C1 witness: add_fs was called while the REPL was active.
C1_Witness ==
    last.op = "add_fs" /\ last.pre.repl # None /\ repl # None /\ view_repl

\* C2: toggle_fs with the REPL active and toggle_repl with the file system
\* active each show their "cannot work at the same time" message exactly
\* once, call no discovery, probe or view add/remove, raise nothing and
\* leave the state unchanged.
C2_ToggleConflict ==
    /\ (last.op = "toggle_fs" /\ last.pre.repl # None) =>
           /\ Showed(last.eff, FS_CONFLICT)
           /\ last.eff.calls = <<>>
           /\ last.eff.raised = None
           /\ Unchanged
    /\ (last.op = "toggle_repl" /\ last.pre.fs # None) =>
           /\ Showed(last.eff, REPL_CONFLICT)
           /\ last.eff.calls = <<>>
           /\ last.eff.raised = None
           /\ Unchanged

\* C2 witness: toggle_fs was called while the REPL was active.
C2_Witness == last.op = "toggle_fs" /\ last.pre.repl # None

C4_InvariantViolationRaised ==
    /\ (last.op = "add_repl" /\ last.pre.repl # None) =>
           /\ last.eff.raised = REPL_RUNNING
           /\ last.eff.calls = <<>> /\ last.eff.msgs = <<>> /\ Unchanged
    /\ (last.op = "remove_repl" /\ last.pre.repl = None) =>
           /\ last.eff.raised = REPL_NOT_RUNNING
           /\ last.eff.calls = <<>> /\ last.eff.msgs = <<>> /\ Unchanged
    /\ (last.op = "remove_fs" /\ last.pre.fs = None) =>
           /\ last.eff.raised = FS_NOT_RUNNING
           /\ last.eff.calls = <<>> /\ last.eff.msgs = <<>> /\ Unchanged

\* C4 witness: remove_repl was called in a state with no REPL (here with
\* the file system active).
C4_Witness ==
    last.op = "remove_repl" /\ last.pre.repl = None /\ last.pre.fs # None

\* No enumerated port is a known board.
NoBoard(ports) ==
    \A i \in 1..Len(ports) : <<ports[i].vid, ports[i].pid>> \notin BOARD_IDS

Idle(s) == s.repl = None /\ s.fs = None

\* C5: from Idle, add_fs whose probe fails with an IOError, and add_repl
\* when no enumerated port is a board, each show the "could not find"
\* message, open no view and leave the session Idle.
C5_DeviceNotFound ==
    /\ (last.op = "add_fs" /\ Idle(last.pre) /\ last.in.probe = "IOError") =>
           /\ Showed(last.eff, NOT_FOUND)
           /\ ~HasCall(last.eff, "view.add_filesystem")
           /\ last.eff.raised = None
           /\ Unchanged
    /\ (last.op = "add_repl" /\ Idle(last.pre) /\ NoBoard(last.in.ports)) =>
           /\ Showed(last.eff, NOT_FOUND)
           /\ ~HasCall(last.eff, "view.add_repl")
           /\ last.eff.raised = None
           /\ Unchanged

\* C5 witness: add_repl from Idle with a port attached that is no board.
C5_Witness ==
    /\ last.op = "add_repl" /\ Idle(last.pre)
    /\ Len(last.in.ports) > 0 /\ NoBoard(last.in.ports)

Bytes(tab) == tab.text.ascii + 2 * tab.text.wide

\* C7: flash of a script of 8192 bytes or more shows "script too long" and
\* does nothing else: no discovery, no question to the user, no existence
\* check, no flasher call, remembered path unchanged.  A script of 8191
\* bytes or fewer is not rejected and discovery is the first thing called.
C7_SizeLimit ==
    (last.op = "flash" /\ last.in.tab # NoTab) =>
        /\ Bytes(last.in.tab) >= 8192 =>
               /\ Len(last.eff.msgs) = 1
               /\ last.eff.msgs[1].information = TOO_LONG
               /\ last.eff.calls = <<>>
               /\ last.eff.flashed = <<>>
               /\ Unchanged
        /\ Bytes(last.in.tab) <= 8191 =>
               /\ last.eff.calls # <<>>
               /\ last.eff.calls[1].fn = "uflash.find_microbit"
               /\ \A i \in 1..Len(last.eff.msgs) :
                      last.eff.msgs[i].information # TOO_LONG

\* C7 witness: a script of exactly 8192 bytes (8191 characters) was
\* rejected while a mount and a remembered path were there to flash to.
C7_Witness ==
    /\ last.op = "flash" /\ last.in.tab # NoTab
    /\ Bytes(last.in.tab) = 8192
    /\ last.in.found = MOUNT /\ MOUNT \in last.in.existing
    /\ last.pre.user_defined_microbit_path = USER_PATH
    /\ last.eff.calls = <<>>

\* C8: a flash attempt that finds no mount and resolves to a remembered path
\* that no longer exists does not call the flasher, clears the remembered
\* path and shows "could not find"; and after every flash attempt that
\* shows "could not find" the remembered path is None.
C8_StalePathCleared ==
    /\ ( /\ last.op = "flash"
         /\ HasCall(last.eff, "uflash.find_microbit")
         /\ last.in.found = None
         /\ Truthy(last.pre.user_defined_microbit_path)
         /\ last.pre.user_defined_microbit_path \notin last.in.existing ) =>
           /\ last.eff.flashed = <<>>
           /\ ~HasCall(last.eff, "uflash.flash")
           /\ user_defined_microbit_path = None
           /\ Showed(last.eff, NOT_FOUND)
    /\ ( /\ last.op = "flash"
         /\ \E i \in 1..Len(last.eff.msgs) :
                last.eff.msgs[i].message = NOT_FOUND ) =>
           user_defined_microbit_path = None

\* C8 witness: the remembered path was gone when flash resolved to it.
C8_Witness ==
    /\ last.op = "flash"
    /\ HasCall(last.eff, "uflash.find_microbit")
    /\ last.in.found = None
    /\ last.pre.user_defined_microbit_path = USER_PATH
    /\ USER_PATH \notin last.in.existing
    /\ user_defined_microbit_path = None

\* Number of calls of fn in effect e.
CallCount(e, fn) == Cardinality({i \in 1..Len(e.calls) : e.calls[i].fn = fn})

\* The effect e flashed to path and reported it.
FlashedTo(e, path) ==
    /\ Len(e.flashed) = 1
    /\ e.flashed[1].paths_to_microbits = <<path>>
    /\ Showed(e, FLASHING)

\* C9 as claimed: when discovery fails and no path is remembered, flash asks
\* the user exactly once and, if the path given exists, remembers it and
\* succeeds; and every later flash in which discovery fails while that path
\* still exists (last.kept: it existed at every flash attempt since) uses
\* it without asking again and succeeds.
C9_Original ==
    /\ ( /\ last.op = "flash"
         /\ HasCall(last.eff, "uflash.find_microbit")
         /\ last.in.found = None
         /\ ~Truthy(last.pre.user_defined_microbit_path) ) =>
           /\ CallCount(last.eff, "view.get_microbit_path") = 1
           /\ (Truthy(last.in.answer) /\ last.in.answer \in last.in.existing) =>
                  /\ user_defined_microbit_path = last.in.answer
                  /\ FlashedTo(last.eff, last.in.answer)
    /\ ( /\ last.op = "flash"
         /\ HasCall(last.eff, "uflash.find_microbit")
         /\ last.in.found = None
         /\ last.kept # None
         /\ last.kept \in last.in.existing ) =>
           /\ ~HasCall(last.eff, "view.get_microbit_path")
           /\ FlashedTo(last.eff, last.kept)

\* Indices of the enumerated ports whose exact (vid, pid) is a known board.
KnownAt(ports) ==
    {i \in 1..Len(ports) : <<ports[i].vid, ports[i].pid>> \in BOARD_IDS}

\* A port with the vendor id of one known board and the product id of another.
Mixed(port) ==
    \/ (port.vid = 3368 /\ port.pid = 32779)
    \/ (port.vid = 9114 /\ port.pid = 516)

\* C10: find_microbit returns the name of the first enumerated port whose
\* exact (vid, pid) pair is in BOARD_IDS, and None exactly when no port's
\* pair is; a port with the vendor id of one known pair and the product id
\* of another is passed over.
C10_FirstKnownBoard ==
    last.op = "find_microbit" =>
        LET ports == last.in.ports
        IN  /\ (KnownAt(ports) = {}) <=> (last.eff.result = None)
            /\ \A i \in KnownAt(ports) :
                   (\A j \in KnownAt(ports) : i <= j) =>
                       last.eff.result = ports[i].name
            /\ (\A i \in 1..Len(ports) : Mixed(ports[i])) =>
                   last.eff.result = None

\* C10 witness: the first port mixes the ids of two known boards, the second
\* is a board, and the second port's name was returned.
C10_Witness ==
    /\ last.op = "find_microbit"
    /\ Len(last.in.ports) = 2
    /\ last.in.ports[1] = [vid |-> 3368, pid |-> 32779, name |-> "ttyACM0"]
    /\ last.in.ports[2] = [vid |-> 9114, pid |-> 32779, name |-> "ttyACM1"]
    /\ last.eff.result = "ttyACM1"

\* path_to_microbit of the last flash, from its inputs and the state before.
Resolved ==
    IF last.in.found # None THEN last.in.found
    ELSE IF Truthy(last.pre.user_defined_microbit_path)
    THEN last.pre.user_defined_microbit_path
    ELSE last.in.answer

\* C16 as claimed: flash changes the remembered path in two ways only: it
\* sets it when it was absent, discovery failed and the user supplied a
\* path; it clears it when discovery failed and the remembered path itself
\* no longer exists.  A flash for which discovery returned a mount leaves a
\* remembered path as it is.
C16_Original ==
    last.op = "flash" =>
        /\ (user_defined_microbit_path
                # last.pre.user_defined_microbit_path) =>
               \/ /\ ~Truthy(last.pre.user_defined_microbit_path)
                  /\ last.in.found = None
                  /\ Truthy(last.in.answer)
                  /\ user_defined_microbit_path = last.in.answer
               \/ /\ Truthy(last.pre.user_defined_microbit_path)
                  /\ last.in.found = None
                  /\ last.pre.user_defined_microbit_path \notin last.in.existing
                  /\ user_defined_microbit_path = None
        /\ (last.in.found # None
              /\ Truthy(last.pre.user_defined_microbit_path)) =>
               user_defined_microbit_path
                   = last.pre.user_defined_microbit_path

Mentions(m, x) == x \in {m.message, m.information, m.label, m.runtime}

\* The last operation was a flash that called the flasher.
Flashed == last.op = "flash" /\ Len(last.eff.flashed) = 1

\* C18 as claimed: a successful flash reports success with the mount path
\* it wrote to and, exactly when a custom runtime was handed to the flasher,
\* the path of that runtime.
C18_Original ==
    Flashed =>
        /\ Len(last.eff.msgs) = 1
        /\ Mentions(last.eff.msgs[1], last.eff.flashed[1].paths_to_microbits[1])
        /\ Mentions(last.eff.msgs[1], RUNTIME_HEX)
               <=> (last.eff.flashed[1].path_to_runtime # None)

\* C18 amended: a successful flash reports success with the label of the
\* tab and never with the path it wrote to; the report names the custom
\* runtime exactly when get_runtime_hex_path returned one and that file
\* still exists when the message is built.
C18_SuccessReport ==
    Flashed =>
        /\ Showed(last.eff, FLASHING)
        /\ last.eff.msgs[1].label = last.in.tab.label
        /\ ~Mentions(last.eff.msgs[1],
                     last.eff.flashed[1].paths_to_microbits[1])
        /\ Mentions(last.eff.msgs[1], RUNTIME_HEX)
               <=> (last.in.rt = RUNTIME_HEX /\ last.in.rt_exists)
        /\ last.eff.flashed[1].path_to_runtime = last.in.rt

\* C18 witness: a flash with a custom runtime that was named in the report.
C18_Witness ==
    /\ Flashed
    /\ last.eff.flashed[1].path_to_runtime = RUNTIME_HEX
    /\ last.eff.msgs[1].runtime = RUNTIME_HEX

\* The number of entries of a feedback dictionary.
Entries(feedback) ==
    Cardinality(UNION { { <<k, i>> : i \in 1..Len(feedback[k]) } :
                        k \in DOMAIN feedback })

FormLines == { StyleLine(w) : w \in StyleForms }
FormOf(line) == CHOOSE w \in StyleForms : StyleLine(w) = line

\* The lines of an output that have the form, in their order.
Formed(results) == SelectSeq(results, LAMBDA l : l \in FormLines)

\* The diagnostic each line of the form stands for.
StyleDiagnostic(w) ==
    CASE w = StyleForm("10", "5", "E303", TOO_MANY) ->
             [line_no |-> 9, column |-> 4, code |-> <<"E303">>,
              message |-> <<"Too", " ", "many", " ", "blank", " ", "lines",
                            " ", "above", " ", "this", " ", "line">>]
      [] w = StyleForm("1", "1", "E711", COMPARISON) ->
             [line_no |-> 0, column |-> 0, code |-> <<"E711">>,
              message |-> <<"Comparison", " ", "to", " ", "none">>]
      [] w = StyleForm("3", "10", "E203", WHITESPACE) ->
             [line_no |-> 2, column |-> 9, code |-> <<"E203">>,
              message |-> <<"Whitespace", " ", "before", " ", "'", ":", "'">>]
      [] w = StyleForm("10", "1", "W391", BLANK_LINE) ->
             [line_no |-> 9, column |-> 0, code |-> <<"W391">>,
              message |-> <<"Blank", " ", "line", " ", "at", " ", "end">>]
      [] w = StyleForm("0", "1", "E902", COMPARISON) ->
             [line_no |-> 0 - 1, column |-> 0, code |-> <<"E902">>,
              message |-> <<"Comparison", " ", "to", " ", "none">>]

\* feedback holds exactly the diagnostics of the lines of results that have
\* the form, each under its line, in the order of the lines.
YieldsFormed(results, feedback) ==
    LET want == [i \in 1..Len(Formed(results)) |->
                    StyleDiagnostic(FormOf(Formed(results)[i]))]
    IN  /\ DOMAIN feedback = { want[i].line_no : i \in 1..Len(want) }
        /\ \A k \in DOMAIN feedback :
               feedback[k] = SelectSeq(want, LAMBDA d : d.line_no = k)

\* C11: when check_pycodestyle has parsed an output, every line
\* <file>:<line>:<col>: <code> <description> of it has become one entry,
\* stored under line - 1, with line_no = line - 1, column = col - 1, the
\* code, and as message the description, followed by ' above this line'
\* exactly when the code is E303, capitalized.
C11_StyleEntries ==
    (last.op = "check_pycodestyle" /\ last.out.raised = None) =>
        YieldsFormed(last.in, last.out.style_feedback)

\* C11 witness: 'foo.py:10:5: E303 too many blank lines' was parsed, with
\* another line for line 10 after it.
C11_Witness ==
    /\ last.op = "check_pycodestyle"
    /\ last.out.raised = None
    /\ Len(last.in) = 2
    /\ last.in[1] = FILE \o <<":", "10", ":", "5", ":", " ", "E303", " ">>
                        \o TOO_MANY
    /\ last.in[2] = StyleLine(StyleForm("10", "1", "W391", BLANK_LINE))
    /\ Len(last.out.style_feedback[9]) = 2
    /\ last.out.style_feedback[9][1].column = 4
    /\ SubSeq(last.out.style_feedback[9][1].message, 8, 13) = ABOVE_THIS_LINE

\* C12 as claimed: check_pycodestyle raises nothing on any output; lines
\* that cannot be parsed, the one with a location and a code but no
\* description among them, are skipped, and the lines of the form in the
\* same output still yield their diagnostics.
C12_Original ==
    last.op = "check_pycodestyle" =>
        /\ last.out.raised = None
        /\ Entries(last.out.style_feedback) = Len(Formed(last.in))

WildCode == IMPORT_ALL \o <<"\n">> \o IMPORT_OS

\* The finding is pyflakes' "'<name>' imported but unused" for the name.
IsUnused(f, name) ==
    /\ f.kind = "flake"
    /\ \E l \in {"1", "2", "3"} : f.message = FlakeLine(l, Unused(name))

\* ... for a name the expanded import lists.
IsExpandedUnused(f) ==
    \E i \in 1..Len(ExpandedNames) :
        IsUnused(f, <<"microbit", ".", ExpandedNames[i]>>)

\* ... for any name of microbit.
IsMicrobitUnused(f) ==
    \E n \in {"pin15", "compass", "music"} :
        IsUnused(f, <<"microbit", ".", n>>)

\* The entries of feedback, under any line, with this message.
WithMessage(feedback, message) ==
    UNION { { <<k, i>> : i \in { j \in 1..Len(feedback[k]) :
                                   feedback[k][j].message = message } } :
            k \in DOMAIN feedback }

LeavesOut(Left(_)) ==
    LET findings == last.in.findings
        kept_ == { i \in 1..Len(findings) : ~Left(findings[i]) }
    IN  /\ Entries(last.out.feedback) = Cardinality(kept_)
        /\ \A i \in kept_ :
               \A l \in {"1", "2", "3", "5"} :
                   \A n \in {"pin15", "compass", "music"} :
                       findings[i] = Finding("flake",
                           FlakeLine(l, Unused(<<"microbit", ".", n>>)), 0, 0)
                       => WithMessage(last.out.feedback,
                              Unused(<<"microbit", ".", n>>)) # {}

Tagged(feedback, k, annotation_type) ==
    IF k \in DOMAIN feedback
    THEN [i \in 1..Len(feedback[k]) |->
             [annotation_type |-> annotation_type, entry |-> feedback[k][i]]]
    ELSE <<>>

\* The lint set and the style set of the last check_code.
LintSet ==
    check_flake(IF Truthy(last.in.tab.path) THEN last.in.tab.path
                ELSE "untitled",
                last.in.tab.text, last.in.findings).feedback
StyleSet == check_pycodestyle(last.in.results).style_feedback

\* The last operation was a check_code that had a tab and returned.
CheckReturned ==
    last.op = "check_code" /\ last.in.tab.open /\ last.eff.raised = None

\* C14: when check_code returns, the view holds the merge of the lint set
\* and the style set: its lines are the lines of either set, and under each
\* line it holds the lint entries of that line in their order followed by
\* the style entries of that line in their order, each once; the result is
\* fixed by the input of the invocation.
C14_Merged ==
    CheckReturned =>
        /\ DOMAIN annotations = DOMAIN LintSet \cup DOMAIN StyleSet
        /\ \A k \in DOMAIN annotations :
               annotations[k] = Tagged(LintSet, k, "error")
                                    \o Tagged(StyleSet, k, "style")
        /\ Entries(annotations) = Entries(LintSet) + Entries(StyleSet)

\* C14 witness: lint has one entry for line 2, style one for line 2 and two
\* for line 9; the view holds lint's then style's under 2 and style's two
\* under 9.
C14_Witness ==
    /\ CheckReturned
    /\ DOMAIN LintSet = {2} /\ Len(LintSet[2]) = 1
    /\ DOMAIN StyleSet = {2, 9} /\ Len(StyleSet[2]) = 1 /\ Len(StyleSet[9]) = 2
    /\ DOMAIN annotations = {2, 9}
    /\ annotations[2][1].annotation_type = "error"
    /\ annotations[2][2].annotation_type = "style"
    /\ Len(annotations[9]) = 2

\* The session part of the editor's state is as it was before the last
\* operation.
SessionKept ==
    /\ repl = last.pre.repl /\ fs = last.pre.fs
    /\ view_repl = last.pre.view_repl /\ view_fs = last.pre.view_fs

\* The remembered path is as it was before the last operation.
PathKept ==
    user_defined_microbit_path = last.pre.user_defined_microbit_path

\* C19: flash leaves the session (repl, fs and their panes) as it was; the
\* six session operations leave the remembered path as it was; check_code
\* leaves both as they were.
C19_Frame ==
    /\ last.op = "flash" => SessionKept
    /\ last.op \in {"add_fs", "remove_fs", "toggle_fs", "add_repl",
                    "remove_repl", "toggle_repl"} => PathKept
    /\ last.op = "check_code" => SessionKept /\ PathKept

\* C19 witness: check_code ran both analyzers on a script while the REPL was
\* open and a path was remembered.
C19_Witness ==
    /\ last.op = "check_code"
    /\ last.in.tab.open /\ HasCall(last.eff, "check")
    /\ last.eff.raised = None
    /\ repl # None /\ view_repl
    /\ user_defined_microbit_path = USER_PATH

\* C20: check_code calls view.reset_annotations() before anything else, and
\* what the view holds after it is what this invocation alone puts there,
\* whatever the view held before: nothing when there is no tab or neither
\* analyzer has a finding.
C20_Replaced ==
    last.op = "check_code" =>
        /\ last.eff.calls # <<>>
        /\ last.eff.calls[1].fn = "view.reset_annotations"
        /\ annotations
               = Editor_check_code(last.pre, EmptyDict, last.in).annotations
        /\ ~last.in.tab.open => annotations = EmptyDict
        /\ (CheckReturned /\ LintSet = EmptyDict /\ StyleSet = EmptyDict)
               => annotations = EmptyDict
        /\ CheckReturned =>
               Entries(annotations) <= Len(last.in.findings)
                                           + Len(last.in.results)

\* C20 witness: the view held annotations for line 9 and the next check_code,
\* finding something on line 2 only, left only those.
C20_Witness ==
    /\ CheckReturned
    /\ 9 \in DOMAIN last.held
    /\ DOMAIN annotations = {2}

\* C22 as claimed: every entry check_pycodestyle makes has a line and a
\* column that are not negative, for every line and column STYLE_REGEX
\* accepts, and lies under its line.
C22_Original ==
    (last.op = "check_pycodestyle" /\ last.out.raised = None) =>
        \A k \in DOMAIN last.out.style_feedback :
            /\ k >= 0
            /\ \A i \in 1..Len(last.out.style_feedback[k]) :
                   /\ last.out.style_feedback[k][i].line_no = k
                   /\ last.out.style_feedback[k][i].line_no >= 0
                   /\ last.out.style_feedback[k][i].column >= 0

\* Operations that may open the REPL.
OpensRepl == last.op \in {"add_repl", "toggle_repl"}

\* C23 as claimed: the REPL's port is '/dev/<name>' on posix and the name on
\* nt; on any other platform REPL() fails, add_repl surfaces the failure
\* (to its caller or in a message) and leaves the REPL unset and unshown.
C23_Original ==
    (OpensRepl /\ HasCall(last.eff, "REPL")) =>
        LET mb_port == find_microbit(last.in.ports)
        IN  /\ os_name = "posix" /\ last.in.view = "ok" =>
                   repl = "/dev/" \o mb_port
            /\ os_name = "nt" /\ last.in.view = "ok" => repl = mb_port
            /\ os_name \notin {"posix", "nt"} =>
                   /\ last.eff.raised # None \/ last.eff.msgs # <<>>
                   /\ repl = None /\ ~view_repl

\* The RuntimeErrors with which the session operations reject a call.
InvariantViolations ==
    {FS_CONNECTED, REPL_RUNNING, REPL_NOT_RUNNING, FS_NOT_RUNNING}

\* C24: in every reachable state toggle_repl and toggle_fs raise none of the
\* RuntimeErrors of add_repl, remove_repl and remove_fs.
C24_TogglesNeverRejected ==
    last.op \in {"toggle_fs", "toggle_repl"} =>
        last.eff.raised \notin InvariantViolations

\* C24 witness: toggle_repl was called with a REPL recorded that the view
\* never showed, and closed it.
C24_Witness ==
    /\ last.op = "toggle_repl"
    /\ last.pre.repl # None /\ ~last.pre.view_repl
    /\ HasCall(last.eff, "view.remove_repl")
    /\ last.eff.raised = None
    /\ repl = None

\* C25 as claimed: after every session operation, whatever the probe, the
\* REPL's construction and the view's calls did, the REPL is recorded
\* exactly when the view shows it and the file system exactly when the view
\* shows it.
C25_Original ==
    /\ (repl # None) <=> view_repl
    /\ (fs # None) <=> view_fs

\* C21: with add_fs and add_repl run statement by statement by two callers,
\* the REPL and the file system are both active only after one caller passed
\* its tests while the other was between its own tests and its return; with
\* the operations serialized they are never both active.  (That both can be
\* active without serialization is the witness.)
C21_BothOnlyByOverlap ==
    /\ (repl # None /\ fs # None) => pc.overlap
    /\ pc.serial => ~pc.overlap /\ ~(repl # None /\ fs # None)

\* C21 witness: without serialization, both are active and both shown.
C21_Witness ==
    /\ ~pc.serial
    /\ repl # None /\ fs # None
    /\ view_repl /\ view_fs
    /\ pc.add_fs = "returned" /\ pc.add_repl = "returned"

\* No session is on.
NoSession == repl = None /\ fs = None

====
